---- MODULE Spec2Model ----
(***************************************************************************)
(* Constraint propagators of the FunPuzz CSP solver (propagators.py) over  *)
(* small problems made of the constraints the model builders produce      *)
(* (puzzle_csp.py).  A depth-first driver assigns variables, calls one     *)
(* propagator after each assignment and restores the returned prunings    *)
(* when it backtracks.                                                     *)
(***************************************************************************)
EXTENDS Integers, Sequences, FiniteSets, TLC

\* ------------------------------------------------------------------------
\* Problem instances
\* ------------------------------------------------------------------------

\* side of the grid, fpuzz_grid[0][0]; the domain of every cell is 1..Dimension
Dimension == 2

\* cap on the length of the pruned list of one gac_enforce call
MaxPruned == 16

\* largest number of cells of a cage
MaxCells == 3

\* Variable.assignedValue of an unassigned variable
None == 0

\* newVar=None of a propagator call
NoVar == "None"

\* domain = [i + 1 for i in range(dimension)]
Dom == [i \in 1..Dimension |-> i]

DomSet == 1..Dimension

\* the cells of the grid, in csp_vars order
Vars == <<"V11", "V12", "V21", "V22">>

VarSet == {Vars[i] : i \in 1..Len(Vars)}

Range(s) == {s[i] : i \in 1..Len(s)}

\* itertools.permutations(domain, 2): the not-equal pairs
NePairs == {t \in DomSet \X DomSet : t[1] # t[2]}

\* tuples of a two-cell cage with operator 1 (subtract) and target 0
SubZeroPairs == {t \in DomSet \X DomSet : t[1] - t[2] = 0}

ConNames == {"r1", "c1", "r2", "c2", "u22", "s12"}

\* Constraint.scope
get_scope(c) ==
  CASE c = "r1"  -> <<"V11", "V12">>
    [] c = "c1"  -> <<"V11", "V21">>
    [] c = "r2"  -> <<"V21", "V22">>
    [] c = "c2"  -> <<"V12", "V22">>
    [] c = "u22" -> <<"V22">>
    [] c = "s12" -> <<"V11", "V12">>

\* Constraint.sat_tuples
sat_tuples(c) ==
  CASE c = "u22" -> {<<Dimension>>}
    [] c = "s12" -> SubZeroPairs
    [] OTHER     -> NePairs

\* binary_ne_grid of a 2x2 board, in add_constraint order
GridCons == <<"r1", "c1", "r2", "c2">>

\* a row pair, a column pair and the single-cell cage [22, 2]
CageCons == <<"r2", "c2", "u22">>

\* a row pair and a subtract-0 cage over the same two cells
PairCons == <<"r1", "s12">>

Perms(s) ==
  {p \in [1..Len(s) -> Range(s)] : \A i, j \in 1..Len(s) : i # j => p[i] # p[j]}

Problems == Perms(GridCons) \cup Perms(CageCons) \cup Perms(PairCons)

\* ------------------------------------------------------------------------
\* caged_csp_model: the satisfying tuples of a cage with an operator
\* ------------------------------------------------------------------------

\* lines 192-200: one step of the fold; an operator code outside 0..3 matches
\* no case and leaves cur_result as it is
cage_apply(op, cur_result, var) ==
  CASE op = 0 -> cur_result + var
    [] op = 1 -> cur_result - var
    [] op = 2 -> cur_result \div var
    [] op = 3 -> cur_result * var
    [] OTHER  -> cur_result

\* lines 190-200: cur_result after the values of combination from position i on
RECURSIVE cage_fold(_, _, _, _)
cage_fold(op, combination, i, cur_result) ==
  IF i > Len(combination) THEN cur_result
  ELSE cage_fold(op, combination, i + 1, cage_apply(op, cur_result, combination[i]))

\* line 187: itertools.product(domain, repeat=len(cage))
cage_combinations(k) == [1..k -> DomSet]

\* lines 189-203: the combinations whose fold is the target
cage_candidates(op, target, k) ==
  {c \in cage_combinations(k) : cage_fold(op, c, 2, c[1]) = target}

\* line 208: itertools.permutations(candidate), by the positions they take
cage_permutations(candidate) ==
  LET k == Len(candidate)
  IN {[i \in 1..k |-> candidate[p[i]]] :
        p \in {q \in [1..k -> 1..k] : \A i, j \in 1..k : i # j => q[i] # q[j]}}

\* the candidates taken as the satisfying tuples, without their permutations
cage_tuples_unpermuted(op, target, k) == cage_candidates(op, target, k)

\* lines 205-210: S, the permutations of every candidate
cage_tuples(op, target, k) ==
  UNION {cage_permutations(c) : c \in cage_candidates(op, target, k)}

\* the targets a cage of at most MaxCells cells can reach, and some it cannot
CageTargets == (0 - Dimension * MaxCells)..(Dimension ^ MaxCells + 1)

\* a cage with an operator: its number of cells, operator code and target
CageInputs ==
  [cells : 2..MaxCells, operator : 0..3, target : CageTargets,
   built : {FALSE}, S : {{}}]

\* the cage of a problem whose constraints are already built
NoCage == [cells |-> 0, operator |-> 0, target |-> 0, built |-> TRUE, S |-> {}]

\* ------------------------------------------------------------------------
\* cspbase: Variable, Constraint, CSP
\* ------------------------------------------------------------------------

is_assigned(asg, v) == asg[v] # None

in_dom(d) == d \in DomSet

\* Variable.cur_domain: the assigned value alone when assigned
cur_domain(asg, dom, v) ==
  IF is_assigned(asg, v) THEN <<asg[v]>>
  ELSE SelectSeq(Dom, LAMBDA d : d \in dom[v])

in_cur_domain(asg, dom, v, val) ==
  IF ~in_dom(val) THEN FALSE
  ELSE IF is_assigned(asg, v) THEN val = asg[v]
  ELSE val \in dom[v]

cur_domain_size(asg, dom, v) ==
  IF is_assigned(asg, v) THEN 1 ELSE Cardinality(dom[v])

prune_value(dom, v, d) == [dom EXCEPT ![v] = @ \ {d}]

unprune_value(dom, v, d) == [dom EXCEPT ![v] = @ \cup {d}]

assign(asg, dom, v, d) ==
  IF is_assigned(asg, v) \/ ~in_cur_domain(asg, dom, v, d) THEN asg
  ELSE [asg EXCEPT ![v] = d]

unassign(asg, v) == [asg EXCEPT ![v] = None]

check(c, vals) == vals \in sat_tuples(c)

get_n_unasgn(asg, c) ==
  Cardinality({i \in 1..Len(get_scope(c)) : ~is_assigned(asg, get_scope(c)[i])})

get_unasgn_vars(asg, c) ==
  SelectSeq(get_scope(c), LAMBDA v : ~is_assigned(asg, v))

tuple_is_valid(asg, dom, c, t) ==
  \A i \in 1..Len(get_scope(c)) : in_cur_domain(asg, dom, get_scope(c)[i], t[i])

has_support(asg, dom, c, var, val) ==
  \E t \in sat_tuples(c) :
    /\ \E i \in 1..Len(get_scope(c)) : get_scope(c)[i] = var /\ t[i] = val
    /\ tuple_is_valid(asg, dom, c, t)

get_all_cons(cs) == cs

get_cons_with_var(cs, v) == SelectSeq(cs, LAMBDA c : v \in Range(get_scope(c)))

\* ------------------------------------------------------------------------
\* propagators.py
\* ------------------------------------------------------------------------

\* the result of a call: (ok, pruned) and the domains and assignments it leaves
Result(ok, pr, dom, asg) == [ok |-> ok, pruned |-> pr, dom |-> dom, asg |-> asg]

\* vals of lines 72-75
assigned_values(asg, c) == [i \in 1..Len(get_scope(c)) |-> asg[get_scope(c)[i]]]

\* bt_violated without the test that the constraint is fully assigned
bt_violated_any(asg, c) == ~check(c, assigned_values(asg, c))

\* the test of lines 71-77 for one constraint
bt_violated(asg, c) ==
  get_n_unasgn(asg, c) = 0 /\ ~check(c, assigned_values(asg, c))

\* prop_BT that returns after the first constraint of newVar
prop_BT_first_only(cs, asg, dom, newVar) ==
  IF newVar = NoVar THEN Result(TRUE, <<>>, dom, asg)
  ELSE IF /\ get_cons_with_var(cs, newVar) # <<>>
          /\ bt_violated(asg, get_cons_with_var(cs, newVar)[1])
       THEN Result(FALSE, <<>>, dom, asg)
       ELSE Result(TRUE, <<>>, dom, asg)

\* lines 64-78
prop_BT(cs, asg, dom, newVar) ==
  IF newVar = NoVar THEN Result(TRUE, <<>>, dom, asg)
  ELSE IF \E i \in 1..Len(get_cons_with_var(cs, newVar)) :
            bt_violated(asg, get_cons_with_var(cs, newVar)[i])
       THEN Result(FALSE, <<>>, dom, asg)
       ELSE Result(TRUE, <<>>, dom, asg)

\* fc_check iterating over the whole domain instead of the current domain
fc_cur_dom_whole(asg, dom, x) == Dom

\* the list fc_check iterates over (line 90)
fc_cur_dom(asg, dom, x) == cur_domain(asg, dom, x)

\* fc_falsifies with the test of line 100 inverted
fc_falsifies_inverted(asg, C) == check(C, assigned_values(asg, C))

\* line 100: the values of the scope falsify C
fc_falsifies(asg, C) == ~check(C, assigned_values(asg, C))

\* fc_retract that leaves the tested value assigned
fc_retract_skipped(asg, x) == asg

\* line 103: the tested value is retracted
fc_retract(asg, x) == unassign(asg, x)

\* fc_loop that checks the constraint before the tested value is assigned
RECURSIVE fc_loop_check_first(_, _, _, _, _, _, _)
fc_loop_check_first(asg, dom, C, x, cur, i, pr) ==
  IF i > Len(cur) THEN Result(TRUE, pr, dom, asg)
  ELSE LET d    == cur[i]
           bad  == fc_falsifies(asg, C)
           asg1 == assign(asg, dom, x, d)
           dom1 == IF bad THEN prune_value(dom, x, d) ELSE dom
           pr1  == IF bad THEN Append(pr, <<x, d>>) ELSE pr
           asg2 == fc_retract(asg1, x)
       IN fc_loop_check_first(asg2, dom1, C, x, cur, i + 1, pr1)

\* the loop of lines 91-103 from position i of cur
RECURSIVE fc_loop(_, _, _, _, _, _, _)
fc_loop(asg, dom, C, x, cur, i, pr) ==
  IF i > Len(cur) THEN Result(TRUE, pr, dom, asg)
  ELSE LET d    == cur[i]
           asg1 == assign(asg, dom, x, d)
           bad  == fc_falsifies(asg1, C)
           dom1 == IF bad THEN prune_value(dom, x, d) ELSE dom
           pr1  == IF bad THEN Append(pr, <<x, d>>) ELSE pr
           asg2 == fc_retract(asg1, x)
       IN fc_loop(asg2, dom1, C, x, cur, i + 1, pr1)

\* fc_check declaring a wipeout while one value is still left
fc_check_one_left(asg, dom, C, x, pr) ==
  LET r == fc_loop(asg, dom, C, x, fc_cur_dom(asg, dom, x), 1, pr)
  IN IF cur_domain_size(r.asg, r.dom, x) <= 1
     THEN Result(FALSE, r.pruned, r.dom, r.asg)
     ELSE Result(TRUE, r.pruned, r.dom, r.asg)

fc_check(asg, dom, C, x, pr) ==
  LET r == fc_loop(asg, dom, C, x, fc_cur_dom(asg, dom, x), 1, pr)
  IN IF cur_domain_size(r.asg, r.dom, x) = 0
     THEN Result(FALSE, r.pruned, r.dom, r.asg)
     ELSE Result(TRUE, r.pruned, r.dom, r.asg)

\* the constraints prop_FC selects (lines 114-117)
fc_cons(cs, newVar) ==
  IF newVar = NoVar THEN get_all_cons(cs) ELSE get_cons_with_var(cs, newVar)

\* fc_each that goes through every selected constraint and looks for an empty
\* domain only after the loop
RECURSIVE fc_each_to_the_end(_, _, _, _, _)
fc_each_to_the_end(asg, dom, sel, i, pr) ==
  IF i > Len(sel)
  THEN Result(\A v \in VarSet : cur_domain_size(asg, dom, v) > 0, pr, dom, asg)
  ELSE IF get_n_unasgn(asg, sel[i]) = 1
       THEN LET r == fc_check(asg, dom, sel[i], get_unasgn_vars(asg, sel[i])[1], pr)
            IN fc_each_to_the_end(r.asg, r.dom, sel, i + 1, r.pruned)
       ELSE fc_each_to_the_end(asg, dom, sel, i + 1, pr)

\* the loop of lines 120-126 from position i of sel
RECURSIVE fc_each(_, _, _, _, _)
fc_each(asg, dom, sel, i, pr) ==
  IF i > Len(sel) THEN Result(TRUE, pr, dom, asg)
  ELSE IF get_n_unasgn(asg, sel[i]) = 1
       THEN LET r == fc_check(asg, dom, sel[i], get_unasgn_vars(asg, sel[i])[1], pr)
            IN IF ~r.ok THEN r
               ELSE fc_each(r.asg, r.dom, sel, i + 1, r.pruned)
       ELSE fc_each(asg, dom, sel, i + 1, pr)

prop_FC(cs, asg, dom, newVar) == fc_each(asg, dom, fc_cons(cs, newVar), 1, <<>>)

\* list.remove: drop the first occurrence of c
RECURSIVE remove(_, _)
remove(s, c) ==
  IF s = <<>> THEN <<>>
  ELSE IF Head(s) = c THEN Tail(s)
  ELSE <<Head(s)>> \o remove(Tail(s), c)

\* requeue that appends to the pending queue and leaves the settled list alone
RECURSIVE requeue_keep_settled(_, _, _, _)
requeue_keep_settled(queue, settled, var, i) ==
  IF i > Len(settled) THEN [queue |-> queue, settled |-> settled]
  ELSE IF var \in Range(get_scope(settled[i]))
       THEN requeue_keep_settled(Append(queue, settled[i]), settled, var, i + 1)
       ELSE requeue_keep_settled(queue, settled, var, i + 1)

\* lines 153-156: the for loop over nGAC_queue, which removes from the list it
\* iterates; i is the position the list iterator has reached
RECURSIVE requeue(_, _, _, _)
requeue(queue, settled, var, i) ==
  IF i > Len(settled) THEN [queue |-> queue, settled |-> settled]
  ELSE IF var \in Range(get_scope(settled[i]))
       THEN requeue(Append(queue, settled[i]), remove(settled, settled[i]), var, i + 1)
       ELSE requeue(queue, settled, var, i + 1)

\* the state of one gac_enforce call
GacState(q, s, dom, pr, st) ==
  [queue |-> q, settled |-> s, dom |-> dom, pruned |-> pr, status |-> st]

\* gac_prune that returns on a wipeout before recording the emptying pair
gac_prune_unrecorded(asg, g, C, var, d) ==
  IF has_support(asg, g.dom, C, var, d) THEN g
  ELSE LET dom1 == prune_value(g.dom, var, d)
           pr1  == Append(g.pruned, <<var, d>>)
       IN IF cur_domain_size(asg, dom1, var) = 0
          THEN GacState(<<>>, g.settled, dom1, g.pruned, "false")
          ELSE LET r == requeue(g.queue, g.settled, var, 1)
               IN GacState(r.queue, r.settled, dom1, pr1, g.status)

\* gac_prune that goes on after a wipeout as after any other prune
gac_prune_no_stop(asg, g, C, var, d) ==
  IF has_support(asg, g.dom, C, var, d) THEN g
  ELSE LET dom1 == prune_value(g.dom, var, d)
           pr1  == Append(g.pruned, <<var, d>>)
           r    == requeue(g.queue, g.settled, var, 1)
       IN GacState(r.queue, r.settled, dom1, pr1, g.status)

\* lines 143-156 for the value d of var
gac_prune(asg, g, C, var, d) ==
  IF has_support(asg, g.dom, C, var, d) THEN g
  ELSE LET dom1 == prune_value(g.dom, var, d)
           pr1  == Append(g.pruned, <<var, d>>)
       IN IF cur_domain_size(asg, dom1, var) = 0
          THEN GacState(<<>>, g.settled, dom1, pr1, "false")
          ELSE LET r == requeue(g.queue, g.settled, var, 1)
               IN GacState(r.queue, r.settled, dom1, pr1, g.status)

\* line 141: the loop over the list cur = var.cur_domain(), from position j
RECURSIVE gac_vals(_, _, _, _, _, _)
gac_vals(asg, g, C, var, cur, j) ==
  IF j > Len(cur) \/ g.status = "false" THEN g
  ELSE gac_vals(asg, gac_prune(asg, g, C, var, cur[j]), C, var, cur, j + 1)

\* line 140: the loop over C.get_scope(), from position i
RECURSIVE gac_scope(_, _, _, _)
gac_scope(asg, g, C, i) ==
  IF i > Len(get_scope(C)) \/ g.status = "false" THEN g
  ELSE LET var == get_scope(C)[i]
       IN gac_scope(asg, gac_vals(asg, g, C, var, cur_domain(asg, g.dom, var), 1), C, i + 1)

\* one pass of the while loop (lines 137-156) and the loop test that follows it
gac_iter(asg, g) ==
  LET C  == Head(g.queue)
      g1 == [g EXCEPT !.queue = Tail(g.queue), !.settled = Append(g.settled, C)]
      g2 == gac_scope(asg, g1, C, 1)
  IN IF g2.status = "false" THEN g2
     ELSE IF g2.queue = <<>> THEN [g2 EXCEPT !.status = "true"]
     ELSE g2

\* gac_enforce run to its return; "diverge" when the loop comes back to a
\* queue, settled list and domains it has already been in
RECURSIVE gac_enforce(_, _, _)
gac_enforce(asg, g, seen) ==
  IF g.status # "run" THEN g
  ELSE IF g.queue = <<>> THEN [g EXCEPT !.status = "true"]
  ELSE IF <<g.queue, g.settled, g.dom>> \in seen THEN [g EXCEPT !.status = "diverge"]
  ELSE gac_enforce(asg, gac_iter(asg, g), seen \cup {<<g.queue, g.settled, g.dom>>})

\* get_all_cons handing out the problem's own list, so that csp.cons is the
\* pending queue of a call without a variable
csp_cons_shared(cs, queue, newVar) == IF newVar = NoVar THEN queue ELSE cs

\* csp.cons while gac_enforce works on the pending queue: get_all_cons and
\* get_cons_with_var hand out lists of their own
csp_cons(cs, queue, newVar) == cs

\* gac_queue starting from the first constraint of newVar only
gac_queue_first(cs, newVar) ==
  IF newVar = NoVar THEN get_all_cons(cs)
  ELSE IF get_cons_with_var(cs, newVar) = <<>> THEN <<>>
  ELSE <<Head(get_cons_with_var(cs, newVar))>>

\* lines 166-171: the two queues prop_GAC starts with
gac_queue(cs, newVar) ==
  IF newVar = NoVar THEN get_all_cons(cs) ELSE get_cons_with_var(cs, newVar)

ngac_queue(cs, newVar) ==
  IF newVar = NoVar THEN <<>>
  ELSE SelectSeq(get_all_cons(cs), LAMBDA c : c \notin Range(gac_queue(cs, newVar)))

gac_start(cs, dom, newVar) ==
  GacState(gac_queue(cs, newVar), ngac_queue(cs, newVar), dom, <<>>, "run")

\* prop_GAC doing no work when it is called without a variable
prop_GAC_idle_start(cs, asg, dom, newVar) ==
  IF newVar = NoVar THEN GacState(<<>>, <<>>, dom, <<>>, "true")
  ELSE gac_enforce(asg, gac_start(cs, dom, newVar), {})

prop_GAC(cs, asg, dom, newVar) == gac_enforce(asg, gac_start(cs, dom, newVar), {})

\* ------------------------------------------------------------------------
\* The search driver and the calls it makes
\* ------------------------------------------------------------------------

VARIABLES
  cage,           \* the cage caged_csp_model is working on and its tuples S
  cons,           \* csp.cons: the constraints, in the order they were added
  strategy,       \* the propagator(s) the search was started with
  prop,           \* the propagator of the call in progress or just returned
  assignedValue,  \* Variable.assignedValue of every variable
  curdom,         \* Variable.curdom of every variable, as the set of values left
  pc,             \* where the driver is: start, assigned, gac, returned, idle, done
  newVar,         \* the argument of the call in progress or just returned
  GAC_queue,      \* gac_enforce: the pending queue
  nGAC_queue,     \* gac_enforce: the settled list
  pruned,         \* the pruned list of the call in progress or just returned
  ok,             \* the boolean the last call returned
  preDom,         \* curdom as it was when the last call started
  trail           \* the driver's stack of (variable, prunings) of accepted calls

vars == <<cage, cons, strategy, prop, assignedValue, curdom, pc, newVar, GAC_queue,
          nGAC_queue, pruned, ok, preDom, trail>>

\* a search uses one propagator; "MIX" is a search that calls prop_FC or
\* prop_GAC, either one at each call
Strategies == {"BT", "FC", "GAC"}

InitWith(strategies) ==
  /\ cage = NoCage
  /\ cons \in Problems
  /\ strategy \in strategies
  /\ prop = IF strategy = "MIX" THEN "FC" ELSE strategy
  /\ assignedValue = [v \in VarSet |-> None]
  /\ curdom = [v \in VarSet |-> DomSet]
  /\ pc = "start"
  /\ newVar = NoVar
  /\ GAC_queue = <<>>
  /\ nGAC_queue = <<>>
  /\ pruned = <<>>
  /\ ok = TRUE
  /\ preDom = [v \in VarSet |-> DomSet]
  /\ trail = <<>>

Init == InitWith(Strategies)

\* restoreValues: unprune the pairs of pr, last pruned first
RECURSIVE restoreValues(_, _)
restoreValues(dom, pr) ==
  IF pr = <<>> THEN dom
  ELSE restoreValues(unprune_value(dom, pr[Len(pr)][1], pr[Len(pr)][2]),
                     SubSeq(pr, 1, Len(pr) - 1))

\* the driver assigns a value of the current domain to an unassigned variable
Assign(x, d) ==
  /\ pc = "idle"
  /\ ~is_assigned(assignedValue, x)
  /\ d \in Range(cur_domain(assignedValue, curdom, x))
  /\ assignedValue' = assign(assignedValue, curdom, x, d)
  /\ newVar' = x
  /\ pc' = "assigned"
  /\ UNCHANGED <<cage, cons, strategy, prop, curdom, GAC_queue, nGAC_queue, pruned, ok,
                 preDom, trail>>

\* install the result r of a BT or FC call
Return(r) ==
  /\ ok' = r.ok
  /\ pruned' = r.pruned
  /\ curdom' = r.dom
  /\ assignedValue' = r.asg
  /\ preDom' = curdom
  /\ pc' = "returned"
  /\ UNCHANGED <<cage, cons, strategy, newVar, GAC_queue, nGAC_queue, trail>>

CallBT ==
  /\ pc \in {"start", "assigned"}
  /\ strategy = "BT"
  /\ prop' = "BT"
  /\ Return(prop_BT(cons, assignedValue, curdom, newVar))

CallFC ==
  /\ pc \in {"start", "assigned"}
  /\ strategy \in {"FC", "MIX"}
  /\ prop' = "FC"
  /\ Return(prop_FC(cons, assignedValue, curdom, newVar))

\* install the state g of the gac_enforce call
GacInstall(g) ==
  /\ GAC_queue' = g.queue
  /\ nGAC_queue' = g.settled
  /\ curdom' = g.dom
  /\ pruned' = g.pruned
  /\ ok' = (g.status # "false")
  /\ pc' = IF g.status = "run" THEN "gac" ELSE "returned"

\* prop_GAC up to the first test of the while loop
CallGAC ==
  /\ pc \in {"start", "assigned"}
  /\ strategy \in {"GAC", "MIX"}
  /\ prop' = "GAC"
  /\ LET g == gac_start(cons, curdom, newVar)
     IN GacInstall(IF g.queue = <<>> THEN [g EXCEPT !.status = "true"] ELSE g)
  /\ preDom' = curdom
  /\ cons' = csp_cons(cons, GAC_queue', newVar)
  /\ UNCHANGED <<cage, strategy, assignedValue, newVar, trail>>

\* one pass of the while loop of gac_enforce
GacStep ==
  /\ pc = "gac"
  /\ Len(pruned) < MaxPruned
  /\ GacInstall(gac_iter(assignedValue,
                         GacState(GAC_queue, nGAC_queue, curdom, pruned, "run")))
  /\ cons' = csp_cons(cons, GAC_queue', newVar)
  /\ UNCHANGED <<cage, strategy, prop, assignedValue, newVar, preDom, trail>>

\* the call returned True: the driver keeps the prunings and goes deeper
Accept ==
  /\ pc = "returned"
  /\ ok
  /\ trail' = Append(trail, [var |-> newVar, pruned |-> pruned])
  /\ pc' = "idle"
  /\ UNCHANGED <<cage, cons, strategy, prop, assignedValue, curdom, newVar, GAC_queue,
                 nGAC_queue, pruned, ok, preDom>>

\* the call returned False: the driver restores the prunings and unassigns
Reject ==
  /\ pc = "returned"
  /\ ~ok
  /\ curdom' = restoreValues(curdom, pruned)
  /\ assignedValue' = IF newVar = NoVar THEN assignedValue
                      ELSE unassign(assignedValue, newVar)
  /\ pc' = IF newVar = NoVar THEN "done" ELSE "idle"
  /\ UNCHANGED <<cage, cons, strategy, prop, newVar, GAC_queue, nGAC_queue, pruned, ok,
                 preDom, trail>>

\* the driver gives up the last accepted assignment
Backtrack ==
  /\ pc = "idle"
  /\ Len(trail) > 1
  /\ LET top == trail[Len(trail)]
     IN /\ curdom' = restoreValues(curdom, top.pruned)
        /\ assignedValue' = unassign(assignedValue, top.var)
  /\ trail' = SubSeq(trail, 1, Len(trail) - 1)
  /\ UNCHANGED <<cage, cons, strategy, prop, pc, newVar, GAC_queue, nGAC_queue, pruned, ok,
                 preDom>>

\* the search ends: the prunings of the initial call are restored
Finish ==
  /\ pc = "idle"
  /\ Len(trail) = 1
  /\ curdom' = restoreValues(curdom, trail[1].pruned)
  /\ trail' = <<>>
  /\ pc' = "done"
  /\ UNCHANGED <<cage, cons, strategy, prop, assignedValue, newVar, GAC_queue, nGAC_queue,
                 pruned, ok, preDom>>

Next ==
  \/ \E x \in VarSet, d \in DomSet : Assign(x, d)
  \/ CallBT
  \/ CallFC
  \/ CallGAC
  \/ GacStep
  \/ Accept
  \/ Reject
  \/ Backtrack
  \/ Finish

Spec == Init /\ [][Next]_vars

\* the search that mixes prop_FC and prop_GAC calls
InitMix == InitWith({"MIX"})

NextMix ==
  \/ \E x \in VarSet, d \in DomSet : Assign(x, d)
  \/ CallFC
  \/ CallGAC
  \/ GacStep
  \/ Accept
  \/ Reject
  \/ Backtrack
  \/ Finish

SpecMix == InitMix /\ [][NextMix]_vars

\* the model builder working on one cage, before any search
InitCage ==
  /\ cage \in CageInputs
  /\ cons = CageCons
  /\ strategy = "BT"
  /\ prop = "BT"
  /\ assignedValue = [v \in VarSet |-> None]
  /\ curdom = [v \in VarSet |-> DomSet]
  /\ pc = "model"
  /\ newVar = NoVar
  /\ GAC_queue = <<>>
  /\ nGAC_queue = <<>>
  /\ pruned = <<>>
  /\ ok = TRUE
  /\ preDom = [v \in VarSet |-> DomSet]
  /\ trail = <<>>

\* lines 178-212: the tuples of the cage are computed and given to its constraint
BuildCage ==
  /\ pc = "model"
  /\ ~cage.built
  /\ cage' = [cage EXCEPT !.S = cage_tuples(cage.operator, cage.target, cage.cells),
                          !.built = TRUE]
  /\ UNCHANGED <<cons, strategy, prop, assignedValue, curdom, pc, newVar, GAC_queue,
                 nGAC_queue, pruned, ok, preDom, trail>>

NextCage == BuildCage

SpecCage == InitCage /\ [][NextCage]_vars

\* ------------------------------------------------------------------------
\* Properties
\* ------------------------------------------------------------------------

\* the complete assignments that extend asg, take every unassigned variable
\* from dom and satisfy every constraint of cs
Solutions(cs, asg, dom) ==
  {s \in [VarSet -> DomSet] :
     /\ \A v \in VarSet : IF is_assigned(asg, v) THEN s[v] = asg[v] ELSE s[v] \in dom[v]
     /\ \A c \in Range(cs) : [i \in 1..Len(get_scope(c)) |-> s[get_scope(c)[i]]] \in sat_tuples(c)}

\* the (variable, value) pairs in dom1 and not in dom2
Removed(dom1, dom2) ==
  {p \in VarSet \X DomSet : p[2] \in dom1[p[1]] /\ p[2] \notin dom2[p[1]]}

NoDuplicates(s) == \A i, j \in 1..Len(s) : i # j => s[i] # s[j]

\* C1: a call of prop_BT, prop_FC or prop_GAC that returns False was made in a
\* state with no solution: no complete assignment extends the assignments,
\* takes the unassigned variables from their domains of before the call and
\* satisfies every constraint.
C1_DeadendSound ==
  (pc = "returned" /\ ~ok) => Solutions(cons, assignedValue, preDom) = {}

C1_Witness ==
  /\ pc = "returned"
  /\ ~ok
  /\ prop = "GAC"
  /\ newVar # NoVar
  /\ pruned # <<>>

\* C2: a gac_enforce call that starts with every settled constraint
\* arc-consistent and returns True leaves every value of every current domain
\* with support in every constraint.
ArcConsistent(asg, dom, c) ==
  \A i \in 1..Len(get_scope(c)) :
    \A d \in Range(cur_domain(asg, dom, get_scope(c)[i])) :
      has_support(asg, dom, c, get_scope(c)[i], d)

C2_GacFixedPoint ==
  ( /\ pc = "returned"
    /\ prop = "GAC"
    /\ ok
    /\ \A c \in Range(ngac_queue(cons, newVar)) : ArcConsistent(assignedValue, preDom, c) )
  => \A c \in Range(cons) : ArcConsistent(assignedValue, curdom, c)

\* C3: during and after every prop_FC and prop_GAC call of the search, every
\* pair of the pruned list had its value in the variable's domain when the call
\* started and is in the list once: no value is pruned while absent.
C3_NoDoublePruning ==
  (pc \in {"gac", "returned"} /\ prop \in {"FC", "GAC"}) =>
    /\ NoDuplicates(pruned)
    /\ \A p \in Range(pruned) : p[2] \in preDom[p[1]]

C3_Witness ==
  /\ pc = "returned"
  /\ prop \in {"FC", "GAC"}
  /\ Len(pruned) >= 2
  /\ Len(trail) >= 2
  /\ \E i \in 1..Len(trail) : trail[i].pruned # <<>>

\* C4: after every call, True or False, the values the call removed from the
\* current domains are exactly the returned pairs, and restoring the returned
\* pairs in reverse order gives the domains of before the call.
C4_RestoreRoundTrip ==
  pc = "returned" =>
    /\ Range(pruned) = Removed(preDom, curdom)
    /\ Removed(curdom, preDom) = {}
    /\ restoreValues(curdom, pruned) = preDom

C4_Witness ==
  /\ pc = "returned"
  /\ ~ok
  /\ pruned # <<>>
  /\ curdom # preDom

\* C5: right after a prop_GAC call returned True, a second prop_GAC call, with
\* the same variable or with none, returns True and prunes nothing.
C5_GacIdempotent ==
  (pc = "returned" /\ prop = "GAC" /\ ok) =>
    \A v \in {newVar, NoVar} :
      LET g == prop_GAC(cons, assignedValue, curdom, v)
      IN g.status = "true" /\ g.pruned = <<>>

\* C6: in every state in which the driver calls a propagator, what prop_BT
\* prunes is empty, hence within what prop_FC prunes, and what prop_FC prunes
\* is within what prop_GAC prunes when prop_GAC returns True.
C6_MonotonicWeakening ==
  pc \in {"start", "assigned"} =>
    LET b == prop_BT(cons, assignedValue, curdom, newVar)
        f == prop_FC(cons, assignedValue, curdom, newVar)
        g == prop_GAC(cons, assignedValue, curdom, newVar)
    IN /\ Range(b.pruned) = {}
       /\ Range(b.pruned) \subseteq Range(f.pruned)
       /\ g.status = "true" => Range(f.pruned) \subseteq Range(g.pruned)

C6_Witness ==
  /\ pc = "assigned"
  /\ LET f == prop_FC(cons, assignedValue, curdom, newVar)
         g == prop_GAC(cons, assignedValue, curdom, newVar)
     IN /\ f.pruned # <<>>
        /\ g.status = "true"
        /\ Range(g.pruned) # Range(f.pruned)

\* C7: in every state in which the driver calls a propagator, prop_FC and
\* prop_GAC return the same boolean and the same set of pruned pairs for every
\* order of the constraint list, deadends included.
C7_OrderIndependent ==
  pc \in {"start", "assigned"} =>
    \A p \in Perms(cons) :
      /\ prop_FC(p, assignedValue, curdom, newVar).ok
           = prop_FC(cons, assignedValue, curdom, newVar).ok
      /\ Range(prop_FC(p, assignedValue, curdom, newVar).pruned)
           = Range(prop_FC(cons, assignedValue, curdom, newVar).pruned)
      /\ prop_GAC(p, assignedValue, curdom, newVar).status
           = prop_GAC(cons, assignedValue, curdom, newVar).status
      /\ Range(prop_GAC(p, assignedValue, curdom, newVar).pruned)
           = Range(prop_GAC(cons, assignedValue, curdom, newVar).pruned)

\* some constraint with v in its scope has every scope variable assigned and
\* the assigned values, in scope order, are not a satisfying tuple
FullyAssignedViolation(cs, asg, v) ==
  \E c \in Range(cs) :
    /\ v \in Range(get_scope(c))
    /\ \A i \in 1..Len(get_scope(c)) : asg[get_scope(c)[i]] # None
    /\ [i \in 1..Len(get_scope(c)) |-> asg[get_scope(c)[i]]] \notin sat_tuples(c)

\* C8: prop_BT returns False exactly when newVar is given and some constraint
\* of newVar is fully assigned and violated; it returns an empty list and
\* leaves every domain as it was.
C8_BTResult ==
  (pc = "returned" /\ prop = "BT") =>
    /\ ok = ~(newVar # NoVar /\ FullyAssignedViolation(cons, assignedValue, newVar))
    /\ pruned = <<>>
    /\ curdom = preDom

C8_Witness ==
  /\ pc = "returned"
  /\ prop = "BT"
  /\ ~ok
  /\ \E c \in Range(cons) :
       /\ Len(get_scope(c)) = 2
       /\ assignedValue[get_scope(c)[1]] = 1
       /\ assignedValue[get_scope(c)[2]] = 1

\* the pairs (x, d) with x the one unassigned variable of a constraint that
\* prop_FC selects, d in the domain of x and x = d falsifying the constraint
FCExpected(cs, asg, dom, v) ==
  {p \in VarSet \X DomSet :
     \E c \in Range(fc_cons(cs, v)) :
       /\ Cardinality({i \in 1..Len(get_scope(c)) : asg[get_scope(c)[i]] = None}) = 1
       /\ p[1] \in Range(get_scope(c))
       /\ asg[p[1]] = None
       /\ p[2] \in dom[p[1]]
       /\ [i \in 1..Len(get_scope(c)) |->
             IF get_scope(c)[i] = p[1] THEN p[2] ELSE asg[get_scope(c)[i]]]
            \notin sat_tuples(c)}

\* the state of the 2x2 not-equal grid right after V11 = 1
GridAfterV11 ==
  /\ Range(cons) = Range(GridCons)
  /\ newVar = "V11"
  /\ assignedValue = [v \in VarSet |-> IF v = "V11" THEN 1 ELSE None]
  /\ preDom = [v \in VarSet |-> DomSet]

\* C9: when prop_FC returns True the returned pairs are exactly the values
\* that falsify a selected constraint with one unassigned variable; on the 2x2
\* not-equal grid after V11 = 1 they are (V12, 1) and (V21, 1).
C9_FCExact ==
  (pc = "returned" /\ prop = "FC" /\ ok) =>
    /\ Range(pruned) = FCExpected(cons, assignedValue, preDom, newVar)
    /\ GridAfterV11 => Range(pruned) = {<<"V12", 1>>, <<"V21", 1>>}

C9_Witness ==
  /\ pc = "returned"
  /\ prop = "FC"
  /\ ok
  /\ GridAfterV11
  /\ curdom["V22"] = DomSet

\* the values of y that no satisfying tuple of the two-variable constraint c
\* pairs with the assigned value of x
Incompatible(asg, dom, c, x, y) ==
  {b \in Range(cur_domain(asg, dom, y)) :
     [i \in 1..2 |-> IF get_scope(c)[i] = x THEN asg[x] ELSE b] \notin sat_tuples(c)}

\* every two-variable constraint of newVar has lost, from the other variable,
\* the values incompatible with the assigned value of newVar
GacPrunedIncompatible ==
  \A c \in Range(cons) :
    (Len(get_scope(c)) = 2 /\ newVar \in Range(get_scope(c))) =>
      \A i \in 1..2 :
        get_scope(c)[i] # newVar =>
          Incompatible(assignedValue, preDom, c, newVar, get_scope(c)[i])
            \cap curdom[get_scope(c)[i]] = {}

\* C10 as stated: after prop_GAC(csp, x), whatever it returns, every value of
\* y incompatible with the value of x is pruned and no value of x is pruned.
C10_AsStated ==
  (pc = "returned" /\ prop = "GAC" /\ newVar # NoVar) =>
    /\ GacPrunedIncompatible
    /\ \A p \in Range(pruned) : p[1] # newVar

\* C10 amended: when prop_GAC(csp, x) returns True, every value of y
\* incompatible with the value of x is pruned and no value of x is pruned; in
\* a call that returns False the only value of x that can be pruned is the
\* assigned one.
C10_GacAfterAssignment ==
  (pc = "returned" /\ prop = "GAC" /\ newVar # NoVar) =>
    /\ ok => GacPrunedIncompatible
    /\ ok => \A p \in Range(pruned) : p[1] # newVar
    /\ \A p \in Range(pruned) : p[1] = newVar => p[2] = assignedValue[newVar]

C10_Witness ==
  /\ pc = "returned"
  /\ prop = "GAC"
  /\ ok
  /\ Range(cons) = Range(GridCons)
  /\ newVar = "V11"
  /\ assignedValue["V11"] = 1
  /\ <<"V12", 1>> \in Range(pruned)
  /\ curdom["V11"] = DomSet

\* C11: in every state in which the driver calls a propagator, a prop_GAC call
\* returns: gac_enforce never comes back to a pending queue, settled list and
\* domains it has already been in.
C11_GacTerminates ==
  pc \in {"start", "assigned"} =>
    prop_GAC(cons, assignedValue, curdom, newVar).status \in {"true", "false"}

\* C12: after a pass of gac_enforce that pruned a value and did not wipe out a
\* domain, no constraint with the variable of the last pruned pair is left in
\* the settled list: every such constraint is on the pending queue.  (Nothing
\* is popped or moved after the last prune of a pass.)
C12_RequeueAll ==
  [][ ( /\ pc = "gac"
        /\ Len(pruned') > Len(pruned)
        /\ ok' )
      => LET var == pruned'[Len(pruned')][1]
         IN /\ \A c \in Range(nGAC_queue') : var \notin Range(get_scope(c))
            /\ \A c \in Range(GAC_queue) \cup Range(nGAC_queue) :
                 var \in Range(get_scope(c)) => c \in Range(GAC_queue') ]_vars

\* the number of times c occurs in the list s
Count(s, c) == Cardinality({i \in DOMAIN s : s[i] = c})

\* every constraint of the problem is once in the pending queue or once in the
\* settled list, and in no other place
QueuePartition ==
  /\ Range(GAC_queue) \cup Range(nGAC_queue) = Range(cons)
  /\ \A c \in Range(cons) : Count(GAC_queue, c) + Count(nGAC_queue, c) = 1

\* C13 as stated: at the start of every prop_GAC call and after every pass of
\* gac_enforce, the wipeout pass included, the two lists partition the
\* constraints of the problem.
C13_AsStated ==
  (prop = "GAC" /\ pc \in {"gac", "returned"}) => QueuePartition

\* C13: at the start of every prop_GAC call and after every pass of gac_enforce
\* that does not wipe out a domain, the pending queue and the settled list
\* partition the constraints of the problem, each constraint occurring once;
\* after a wipeout the pending queue is empty and the settled list holds
\* constraints of the problem, each at most once.
C13_QueuePartition ==
  /\ (prop = "GAC" /\ (pc = "gac" \/ (pc = "returned" /\ ok))) => QueuePartition
  /\ (prop = "GAC" /\ pc = "returned" /\ ~ok) =>
       /\ GAC_queue = <<>>
       /\ Range(nGAC_queue) \subseteq Range(cons)
       /\ NoDuplicates(nGAC_queue)

\* a call after an assignment is in progress, a prune has moved a settled
\* constraint back and both lists hold constraints
C13_Witness ==
  /\ prop = "GAC" /\ pc = "gac" /\ newVar # NoVar
  /\ pruned # <<>>
  /\ GAC_queue # <<>> /\ nGAC_queue # <<>>
  /\ \E c \in Range(GAC_queue) : c \notin Range(gac_queue(cons, newVar))

\* C14: a prop_GAC call returns False right after the prune that empties a
\* current domain: the pending queue is empty, the last pair of the returned
\* list is the emptying pair, no other domain is empty, and the list holds
\* exactly the values the call removed (none pruned later, none put back); a
\* call that is still running or returned True has emptied no domain.
C14_GacWipeout ==
  /\ (prop = "GAC" /\ pc = "returned" /\ ~ok) =>
       /\ GAC_queue = <<>>
       /\ pruned # <<>>
       /\ LET last == pruned[Len(pruned)]
          IN /\ cur_domain_size(assignedValue, curdom, last[1]) = 0
             /\ \A v \in VarSet \ {last[1]} :
                  cur_domain_size(assignedValue, curdom, v) > 0
       /\ Range(pruned) = Removed(preDom, curdom)
  /\ (prop = "GAC" /\ (pc = "gac" \/ (pc = "returned" /\ ok))) =>
       \A v \in VarSet : cur_domain_size(assignedValue, curdom, v) > 0

\* a wipeout after earlier prunes of the same call, with constraints that were
\* still pending when the queue was cleared
C14_Witness ==
  /\ prop = "GAC" /\ pc = "returned" /\ ~ok
  /\ Len(pruned) >= 2
  /\ pruned[1][1] # pruned[Len(pruned)][1]
  /\ Range(nGAC_queue) # Range(cons)

\* the pairs (x, d) that some constraint of the list sel with x as its only
\* unassigned variable rejects, d being in the domain of x
FCFalsified(sel, asg, dom) ==
  {p \in VarSet \X DomSet :
     \E c \in Range(sel) :
       /\ get_n_unasgn(asg, c) = 1
       /\ p[1] = get_unasgn_vars(asg, c)[1]
       /\ p[2] \in dom[p[1]]
       /\ [i \in 1..Len(get_scope(c)) |->
             IF get_scope(c)[i] = p[1] THEN p[2] ELSE asg[get_scope(c)[i]]]
            \notin sat_tuples(c)}

\* the variables whose domain dom is emptied by removing the pairs of ps
Emptied(dom, ps) ==
  {v \in VarSet : {d \in dom[v] : <<v, d>> \notin ps} = {}}

\* C15: prop_FC returns False exactly when the domain of an unassigned variable
\* is empty at the return.  In that case there is a selected constraint, the
\* k-th, with a single unassigned variable x whose domain is empty, no shorter
\* prefix of the selected constraints empties a domain, and the returned list
\* holds exactly the pairs rejected by the first k selected constraints.
C15_FCDeadend ==
  (prop = "FC" /\ pc = "returned") =>
    LET sel == fc_cons(cons, newVar)
    IN /\ ok <=> \A v \in VarSet : cur_domain_size(assignedValue, curdom, v) > 0
       /\ ~ok =>
            \E k \in 1..Len(sel) :
              /\ get_n_unasgn(assignedValue, sel[k]) = 1
              /\ curdom[get_unasgn_vars(assignedValue, sel[k])[1]] = {}
              /\ \A j \in 0..(k - 1) :
                   Emptied(preDom, FCFalsified(SubSeq(sel, 1, j), assignedValue, preDom)) = {}
              /\ Range(pruned) = FCFalsified(SubSeq(sel, 1, k), assignedValue, preDom)

\* prop_FC returned False and a selected constraint after the emptying one
\* rejects a value that was not pruned
C15_Witness ==
  /\ prop = "FC" /\ pc = "returned" /\ ~ok
  /\ FCFalsified(fc_cons(cons, newVar), assignedValue, preDom) # Range(pruned)

\* C16: a step of a prop_BT, prop_FC or prop_GAC call, the returning step
\* included, leaves the assigned value of every variable as it was before the
\* step; the variable prop_FC tests by assigning it is unassigned again.
C16_NoAssignmentLeak ==
  [][ (pc \in {"start", "assigned", "gac"}) => (assignedValue' = assignedValue) ]_vars

\* prop_FC has tested the values of an unassigned variable, pruned one of them
\* and returned, and that variable is unassigned
C16_Witness ==
  /\ prop = "FC" /\ pc = "returned" /\ newVar # NoVar
  /\ \E p \in Range(pruned) :
       /\ assignedValue[p[1]] = None
       /\ curdom[p[1]] # {}

\* the left-to-right fold of the first n values of the tuple c under the
\* operator code op: 0 add, 1 subtract, 2 floor-divide, 3 multiply
FoldLR(op, c, n) ==
  LET F[m \in 1..n] ==
        IF m = 1 THEN c[1]
        ELSE IF op = 0 THEN F[m - 1] + c[m]
        ELSE IF op = 1 THEN F[m - 1] - c[m]
        ELSE IF op = 2 THEN F[m - 1] \div c[m]
        ELSE F[m - 1] * c[m]
  IN F[n]

\* s holds the values of c, each as many times as c does
IsPermutationOf(s, c) ==
  /\ Len(s) = Len(c)
  /\ \A v \in DomSet : Count(s, v) = Count(c, v)

\* C17: the tuples given to a cage of k cells with operator code op and target
\* t are exactly the k-tuples over the domain that are a permutation of some
\* tuple whose left-to-right fold under op is t; for add, target 3 and 2 cells
\* they are (1,2) and (2,1).
C17_CageTuples ==
  (pc = "model" /\ cage.built) =>
    /\ cage.S = {s \in [1..cage.cells -> DomSet] :
                   \E c \in [1..cage.cells -> DomSet] :
                     /\ FoldLR(cage.operator, c, cage.cells) = cage.target
                     /\ IsPermutationOf(s, c)}
    /\ (cage.operator = 0 /\ cage.target = 3 /\ cage.cells = 2) =>
         cage.S = {<<1, 2>>, <<2, 1>>}

\* a subtraction cage of three cells has been given a tuple whose own fold is
\* not the target: it is there as a permutation of a candidate
C17_Witness ==
  /\ pc = "model" /\ cage.built
  /\ cage.operator = 1 /\ cage.cells = 3
  /\ \E s \in cage.S : FoldLR(cage.operator, s, cage.cells) # cage.target

\* C18: no pair that a prop_FC or prop_GAC call has pruned, in a call that is
\* running or has returned True or False, is part of a solution of the state
\* the call started in.
C18_PruningSound ==
  (prop \in {"FC", "GAC"} /\ pc \in {"gac", "returned"}) =>
    \A i \in 1..Len(pruned) :
      \A s \in Solutions(cons, assignedValue, preDom) : s[pruned[i][1]] # pruned[i][2]

\* a call after an assignment pruned values of two variables and returned True
\* from a state that has a solution
C18_Witness ==
  /\ prop \in {"FC", "GAC"} /\ pc = "returned" /\ ok /\ newVar # NoVar
  /\ \E i, j \in 1..Len(pruned) : pruned[i][1] # pruned[j][1]
  /\ Solutions(cons, assignedValue, preDom) # {}

\* every constraint of the problem holds for the assigned values
AllSatisfied ==
  \A c \in Range(cons) :
    [i \in 1..Len(get_scope(c)) |-> assignedValue[get_scope(c)[i]]] \in sat_tuples(c)

\* C19: in a search with one propagator, when every variable is assigned and
\* the last propagator call returned True, the assigned values satisfy every
\* constraint of the problem.
C19_AcceptedAreSolutions ==
  ( /\ pc \in {"returned", "idle"}
    /\ ok
    /\ \A v \in VarSet : is_assigned(assignedValue, v) ) => AllSatisfied

\* the search has assigned the last variable and the call that followed
\* returned True
C19_Witness ==
  /\ pc = "returned" /\ ok /\ newVar # NoVar
  /\ \A v \in VarSet : is_assigned(assignedValue, v)
  /\ Len(trail) = Cardinality(VarSet)

====
